---- MODULE Spec2Model ----
(***************************************************************************)
(* handlebars-inflector: the `inflect` helper (HandlebarsInflector::call,   *)
(* src/src/lib.rs 105-219).                                                 *)
(*                                                                          *)
(* A string is a sequence of one-character strings.  The model covers the   *)
(* ASCII range: letters, digits, and everything else as a non-alphanumeric *)
(* character.  The helper's 19 transformations are the methods of the       *)
(* `inflector` crate's Inflector trait (and str::to_uppercase /             *)
(* to_lowercase); each is modelled by the algorithm the method runs, and    *)
(* is tied to the line of lib.rs that calls it and to the input/output      *)
(* pairs lib.rs documents and tests for it.                                 *)
(***************************************************************************)
EXTENDS Integers, Sequences, FiniteSets, TLC

\* ------------------------------------------------------------- bounds

\* Longest generated input string.
MaxLen == 2

\* Most named options on one generated helper call.
MaxOptions == 2

\* ---------------------------------------------------------- characters

LowerLetters == <<"a", "b", "c", "d", "e", "f", "g", "h", "i", "j", "k", "l", "m", "n", "o", "p", "q", "r", "s", "t", "u", "v", "w", "x", "y", "z">>

UpperLetters == <<"A", "B", "C", "D", "E", "F", "G", "H", "I", "J", "K", "L", "M", "N", "O", "P", "Q", "R", "S", "T", "U", "V", "W", "X", "Y", "Z">>

LowerSet == {LowerLetters[i] : i \in 1..26}

UpperSet == {UpperLetters[i] : i \in 1..26}

DigitSet == {"0", "1", "2", "3", "4", "5", "6", "7", "8", "9"}

UpperOf == [c \in LowerSet |-> UpperLetters[CHOOSE i \in 1..26 : LowerLetters[i] = c]]

LowerOf == [c \in UpperSet |-> LowerLetters[CHOOSE i \in 1..26 : UpperLetters[i] = c]]

is_lowercase(c) == c \in LowerSet

is_uppercase(c) == c \in UpperSet

is_numeric(c) == c \in DigitSet

is_alphanumeric(c) == c \in LowerSet \cup UpperSet \cup DigitSet

\* \w of the regex crate: a letter, a digit or the underscore.
is_word_char(c) == is_alphanumeric(c) \/ c = "_"

to_ascii_uppercase(c) == IF c \in LowerSet THEN UpperOf[c] ELSE c

to_ascii_lowercase(c) == IF c \in UpperSet THEN LowerOf[c] ELSE c

\* ------------------------------------------------------ string helpers

SetMax(S) == CHOOSE x \in S : \A y \in S : y <= x

SetMin(S) == CHOOSE x \in S : \A y \in S : x <= y

ends_with(s, suf) ==
    /\ Len(suf) <= Len(s)
    /\ SubSeq(s, Len(s) - Len(suf) + 1, Len(s)) = suf

DropLast(s, n) == SubSeq(s, 1, Len(s) - n)

\* The 1-based positions at which pat occurs in s.
Occurrences(s, pat) == {i \in 1..(Len(s) - Len(pat) + 1) : SubSeq(s, i, i + Len(pat) - 1) = pat}

contains(s, pat) == Occurrences(s, pat) # {}

\* str::split(pat): the pieces between the non-overlapping occurrences of
\* pat, found left to right.
RECURSIVE split(_, _)
split(s, pat) ==
    IF ~contains(s, pat) THEN <<s>>
    ELSE LET i == SetMin(Occurrences(s, pat))
         IN <<SubSeq(s, 1, i - 1)>> \o split(SubSeq(s, i + Len(pat), Len(s)), pat)

\* str::trim_end_matches(pat): pat removed from the end as often as it
\* is there.
RECURSIVE trim_end_matches(_, _)
trim_end_matches(s, pat) ==
    IF ends_with(s, pat) THEN trim_end_matches(DropLast(s, Len(pat)), pat) ELSE s

\* str::rfind(pred): the last position whose character satisfies pred,
\* 0 for None.
rfind_uppercase(s) ==
    LET hits == {i \in 1..Len(s) : is_uppercase(s[i])}
    IN IF hits = {} THEN 0 ELSE SetMax(hits)

rfind_underscore(s) ==
    LET hits == {i \in 1..Len(s) : s[i] = "_"}
    IN IF hits = {} THEN 0 ELSE SetMax(hits)

MapChars(s, Op(_)) == [i \in 1..Len(s) |-> Op(s[i])]

\* ------------------------------------------------- the case engine
\* inflector::cases::case: the two loops every case conversion runs.

\* trim_right: the trailing non-alphanumeric characters removed.
trim_right(s) ==
    LET keep == {i \in 1..Len(s) : is_alphanumeric(s[i])}
    IN IF keep = {} THEN <<>> ELSE SubSeq(s, 1, SetMax(keep))

\* char_is_uppercase: the character equals its upper-cased self (true of
\* digits too).
char_is_uppercase(c) == c = to_ascii_uppercase(c)

\* next_or_previous_char_is_lowercase, at 1-based position i of the
\* untrimmed string; a missing neighbour counts as lower case.
next_or_previous_char_is_lowercase(s, i) ==
    \/ (IF i + 1 <= Len(s) THEN is_lowercase(s[i + 1]) ELSE TRUE)
    \/ (IF i - 1 >= 1 THEN is_lowercase(s[i - 1]) ELSE TRUE)

requires_seperator(s, i, first_character) ==
    /\ ~first_character
    /\ char_is_uppercase(s[i])
    /\ next_or_previous_char_is_lowercase(s, i)

SnakeCase(c, upper) == IF upper THEN to_ascii_uppercase(c) ELSE to_ascii_lowercase(c)

RECURSIVE snake_loop(_, _, _, _, _, _, _)
snake_loop(s, t, i, first_character, result, sep, upper) ==
    IF i > Len(t) THEN result
    ELSE IF ~is_alphanumeric(t[i])
         THEN IF ~first_character
              THEN snake_loop(s, t, i + 1, TRUE, Append(result, sep), sep, upper)
              ELSE snake_loop(s, t, i + 1, first_character, result, sep, upper)
    ELSE IF requires_seperator(s, i, first_character)
         THEN snake_loop(s, t, i + 1, FALSE, result \o <<sep, SnakeCase(t[i], upper)>>, sep, upper)
    ELSE snake_loop(s, t, i + 1, FALSE, Append(result, SnakeCase(t[i], upper)), sep, upper)

to_case_snake_like(s, sep, upper) == snake_loop(s, trim_right(s), 1, TRUE, <<>>, sep, upper)

\* CamelOptions: new_word, first_word, injectable_char, has_seperator,
\* inverted (last_char always starts as a space).
CamelOptions(new_word, first_word, injectable_char, has_seperator, inverted) ==
    [new_word |-> new_word, first_word |-> first_word, injectable_char |-> injectable_char,
     has_seperator |-> has_seperator, inverted |-> inverted]

append_on_new_word(result, first_word, c, o) ==
    LET r1 == IF o.has_seperator /\ ~first_word THEN Append(result, o.injectable_char) ELSE result
    IN IF ~o.inverted \/ first_word
       THEN Append(r1, to_ascii_uppercase(c))
       ELSE Append(r1, to_ascii_lowercase(c))

RECURSIVE camel_loop(_, _, _, _, _, _, _, _)
camel_loop(t, i, new_word, first_word, last_char, found_real_char, result, o) ==
    IF i > Len(t) THEN result
    ELSE LET c == t[i]
         IN IF ~is_alphanumeric(c) /\ found_real_char
            THEN camel_loop(t, i + 1, TRUE, first_word, last_char, found_real_char, result, o)
            ELSE IF ~found_real_char /\ ~is_alphanumeric(c)
            THEN camel_loop(t, i + 1, new_word, first_word, last_char, found_real_char, result, o)
            ELSE IF is_numeric(c)
            THEN camel_loop(t, i + 1, TRUE, first_word, last_char, TRUE, Append(result, c), o)
            ELSE IF new_word \/ (is_lowercase(last_char) /\ is_uppercase(c) /\ last_char # " ")
            THEN camel_loop(t, i + 1, FALSE, FALSE, last_char, TRUE,
                            append_on_new_word(result, first_word, c, o), o)
            ELSE camel_loop(t, i + 1, new_word, first_word, c, TRUE,
                            Append(result, to_ascii_lowercase(c)), o)

to_case_camel_like(s, o) ==
    camel_loop(trim_right(s), 1, o.new_word, o.first_word, " ", FALSE, <<>>, o)

\* ------------------------------------------- the 19 transformations
\* Inflector trait methods on String, by the algorithm each runs.

\* `product_images` to `productImages`
to_camel_case(s) == to_case_camel_like(s, CamelOptions(FALSE, FALSE, " ", FALSE, FALSE))

\* `product_images` to `ProductImages`
to_pascal_case(s) == to_case_camel_like(s, CamelOptions(TRUE, FALSE, " ", FALSE, FALSE))

\* `ProductImages` to `product_images`
to_snake_case(s) == to_case_snake_like(s, "_", FALSE)

\* `ProductImages` to `PRODUCT_IMAGES`
to_screaming_snake_case(s) == to_case_snake_like(s, "_", TRUE)

\* `product_images` to `product-images`
to_kebab_case(s) == to_case_snake_like(s, "-", FALSE)

\* `product_images` to `Product-Images`
to_train_case(s) == to_case_camel_like(s, CamelOptions(TRUE, TRUE, "-", TRUE, FALSE))

\* `product_images` to `Product images`
to_sentence_case(s) == to_case_camel_like(s, CamelOptions(TRUE, TRUE, " ", TRUE, TRUE))

\* `product_images` to `Product Images`
to_title_case(s) == to_case_camel_like(s, CamelOptions(TRUE, TRUE, " ", TRUE, FALSE))

\* ordinalize indexes the last character of its argument,
\* chars[chars.len() - 1], before anything else: on the empty string the
\* index is out of range and the method panics.
ordinalize_panics(s) == Len(s) = 0

\* `July 1` to `July 1st`.  Defined where ordinalize_panics is false: a
\* string not ending in a digit is returned as it is; a string whose
\* second-last character is 1 gets th; otherwise a string holding a
\* decimal point is returned as it is; otherwise the last digit decides.
ordinalize(s) ==
    LET last_number == s[Len(s)]
    IN IF ~is_numeric(last_number) THEN s
       ELSE IF Len(s) > 1 /\ s[Len(s) - 1] = "1" THEN s \o <<"t", "h">>
       ELSE IF Len(s) > 1 /\ contains(s, <<".">>) THEN s
       ELSE IF last_number = "1" THEN s \o <<"s", "t">>
       ELSE IF last_number = "2" THEN s \o <<"n", "d">>
       ELSE IF last_number = "3" THEN s \o <<"r", "d">>
       ELSE s \o <<"t", "h">>

\* deordinalize that knows st and th only.
deordinalize_st_th(s) ==
    IF s = <<"0", ".", "1">> THEN s
    ELSE trim_end_matches(trim_end_matches(s, <<"s", "t">>), <<"t", "h">>)

\* `July 1st` to `July 1`: the four suffixes trimmed from the end, in
\* this order, whatever precedes them.
deordinalize(s) ==
    IF s = <<"0", ".", "1">> THEN s
    ELSE trim_end_matches(trim_end_matches(trim_end_matches(trim_end_matches(
             s, <<"s", "t">>), <<"n", "d">>), <<"r", "d">>), <<"t", "h">>)

\* The start of the longest run of \w characters that ends at position k
\* (k + 1 when s[k] is no \w character): where a leftmost match of \w*
\* that must end at k begins.
RunStart(s, k) == SetMin({p \in 1..(k + 1) : \A j \in p..k : is_word_char(s[j])})

\* `ProductImage` to `ProductImages`.  The rules are regular expressions
\* matched anywhere in the string and tried last to first; the result of
\* a match is its first group plus the rule's ending, and a string no rule
\* matches gets an s.  Of the rules, the one every string ending in s
\* meets, (\w*)s$, is modelled; the others ask for endings (x, ch, ss, sh,
\* zz, y, f, fe, o, is, us, a, um, on, ix, ex, ...) and stems (child,
\* person, mouse, ...) that no word of the modelled inputs takes, as do
\* the words of the uncountable list.
to_plural(s) ==
    IF ends_with(s, <<"s">>)
    THEN SubSeq(s, RunStart(s, Len(s) - 1), Len(s) - 1) \o <<"s">>
    ELSE s \o <<"s">>

\* `product_images` to `product_image`.  As to_plural, with (\w*)s$
\* dropping the s; a string no rule matches is returned as it is.
to_singular(s) ==
    IF ends_with(s, <<"s">>)
    THEN SubSeq(s, RunStart(s, Len(s) - 1), Len(s) - 1)
    ELSE s

\* `product_images` to `ProductImage`: Pascal case, then the part from
\* the last upper-case letter on made singular.
to_class_case(s) ==
    LET class_plural == to_pascal_case(s)
        at == rfind_uppercase(class_plural)
        cut == IF at = 0 THEN 0 ELSE at - 1
    IN SubSeq(class_plural, 1, cut) \o to_singular(SubSeq(class_plural, cut + 1, Len(class_plural)))

\* `ProductImage` to `product_images`: snake case, then the part from the
\* last underscore on made plural.
to_table_case(s) ==
    LET snaked == to_snake_case(s)
        at == rfind_underscore(snaked)
        cut == IF at = 0 THEN 0 ELSE at - 1
    IN SubSeq(snaked, 1, cut) \o to_plural(SubSeq(snaked, cut + 1, Len(snaked)))

\* safe_convert that leaves the empty string alone.
safe_convert_unless_empty(s) ==
    LET snake_cased == to_snake_case(s)
    IN IF snake_cased = <<>> \/ ends_with(snake_cased, <<"_", "i", "d">>) THEN snake_cased
       ELSE snake_cased \o <<"_", "i", "d">>

safe_convert(s) ==
    LET snake_cased == to_snake_case(s)
    IN IF ends_with(snake_cased, <<"_", "i", "d">>) THEN snake_cased
       ELSE snake_cased \o <<"_", "i", "d">>

\* `Product image` to `product_image_id`: the part after the last ::, in
\* snake case, with _id appended unless it already ends so.
to_foreign_key(s) ==
    IF contains(s, <<":", ":">>)
    THEN LET parts == split(s, <<":", ":">>) IN safe_convert(parts[Len(parts)])
    ELSE safe_convert(s)

\* `std::io` to `Io`: the class case of the part after the last ::, and
\* the string itself when it holds no ::.
demodulize(s) ==
    IF contains(s, <<":", ":">>)
    THEN LET parts == split(s, <<":", ":">>) IN to_class_case(parts[Len(parts)])
    ELSE s

\* `std::io` to `Std`: the class case of the part before the last ::, and
\* the empty string when the string holds no ::.
deconstantize(s) ==
    IF contains(s, <<":", ":">>)
    THEN LET parts == split(s, <<":", ":">>)
         IN IF Len(parts) > 1 THEN to_class_case(parts[Len(parts) - 1]) ELSE <<>>
    ELSE <<>>

\* `product_images` to `PRODUCT_IMAGES` (str::to_uppercase)
to_uppercase(s) == MapChars(s, to_ascii_uppercase)

\* `ProductImages` to `productimages` (str::to_lowercase)
to_lowercase(s) == MapChars(s, to_ascii_lowercase)

\* ------------------------------------------------ the inflect helper

VARIABLES
    strict,     \* r.strict_mode() of the registry that renders
    param,      \* h.param(0): the first positional argument, a JSON value
    options,    \* the named options of the call, as the template lists them
    pc,         \* "ready" before the helper runs, "done" after
    result,     \* how the call ended: Ok, an error, or a panic
    detail,     \* the fields of the error
    applied,    \* the transformations the call ran, in the order it ran them
    written     \* the strings handed to out.write

vars == <<strict, param, options, pc, result, detail, applied, written>>

\* Option<&PathAndJson>::None of h.hash_get.
None == "None"

\* h.hash_get(name): the value the call gives the option, None when the
\* call does not name it (of a name listed twice the last value stays).
hash_get_first(h, name) == IF Len(h) > 0 /\ h[1].name = name THEN h[1].value ELSE None

hash_get_truthy(h, name) ==
    LET at == {i \in 1..Len(h) : h[i].name = name /\ h[i].value = "true"}
    IN IF at = {} THEN None ELSE h[SetMax(at)].value

\* The catalog name a near-miss spelling stands for.
Alias(name) ==
    CASE name = "to_snake_case" -> "snake_case"
      [] name = "to_upper_case" -> "to_uppercase"
      [] OTHER -> name

hash_get_loose(h, name) ==
    LET at == {i \in 1..Len(h) : h[i].name = name \/ h[i].name = Alias(name)}
    IN IF at = {} THEN None ELSE h[SetMax(at)].value

hash_get(h, name) ==
    LET at == {i \in 1..Len(h) : h[i].name = name}
    IN IF at = {} THEN None ELSE h[SetMax(at)].value

\* input.value().render(): a JSON string renders as itself.
render(value) == value.str

\* The `output` of the call while the conditionals run: the string, the
\* transformations run so far, and whether one of them panicked.
Running(s) == [s |-> s, applied |-> <<>>, panicked |-> FALSE]

\* if h.hash_get(name).is_some() { output = output.op(); }
apply_if(h, name, Op(_), out) ==
    IF out.panicked \/ hash_get(h, name) = None THEN out
    ELSE [s |-> Op(out.s), applied |-> Append(out.applied, name), panicked |-> FALSE]

\* The same for ordinalize, which panics on the empty string.
apply_ordinalize_if(h, out) ==
    IF out.panicked \/ hash_get(h, "ordinalize") = None THEN out
    ELSE IF ordinalize_panics(out.s) THEN [out EXCEPT !.panicked = TRUE]
    ELSE [s |-> ordinalize(out.s), applied |-> Append(out.applied, "ordinalize"), panicked |-> FALSE]

\* let mut output = input.value().render();
output_rendered(h, input) == Running(input)

\* The 19 conditionals of lines 139-213, top to bottom: output_N is
\* `output` after the N-th.
output_1(h, input) == apply_if(h, "to_camel_case", to_camel_case, output_rendered(h, input))

output_2(h, input) == apply_if(h, "to_pascal_case", to_pascal_case, output_1(h, input))

output_3_snake_first(h, input) ==
    apply_if(h, "to_pascal_case", to_pascal_case,
        apply_if(h, "to_camel_case", to_camel_case,
            apply_if(h, "to_snake_case", to_snake_case, output_rendered(h, input))))

output_3(h, input) == apply_if(h, "to_snake_case", to_snake_case, output_2(h, input))

output_4(h, input) == apply_if(h, "to_screaming_snake_case", to_screaming_snake_case, output_3(h, input))

output_5(h, input) == apply_if(h, "to_kebab_case", to_kebab_case, output_4(h, input))

output_6(h, input) == apply_if(h, "to_train_case", to_train_case, output_5(h, input))

output_7(h, input) == apply_if(h, "to_sentence_case", to_sentence_case, output_6(h, input))

output_8(h, input) == apply_if(h, "to_title_case", to_title_case, output_7(h, input))

output_9(h, input) == apply_ordinalize_if(h, output_8(h, input))

output_10(h, input) == apply_if(h, "deordinalize", deordinalize, output_9(h, input))

output_11(h, input) == apply_if(h, "to_foreign_key", to_foreign_key, output_10(h, input))

output_12(h, input) == apply_if(h, "demodulize", demodulize, output_11(h, input))

output_13(h, input) == apply_if(h, "deconstantize", deconstantize, output_12(h, input))

output_14(h, input) == apply_if(h, "to_class_case", to_class_case, output_13(h, input))

output_15(h, input) == apply_if(h, "to_table_case", to_table_case, output_14(h, input))

output_16(h, input) == apply_if(h, "to_plural", to_plural, output_15(h, input))

output_17(h, input) == apply_if(h, "to_singular", to_singular, output_16(h, input))

output_18(h, input) == apply_if(h, "to_upper_case", to_uppercase, output_17(h, input))

output_19_upper_last(h, input) ==
    apply_if(h, "to_upper_case", to_uppercase,
        apply_if(h, "to_lower_case", to_lowercase, output_17(h, input)))

output_19(h, input) == apply_if(h, "to_lower_case", to_lowercase, output_18(h, input))

\* `output` as line 215 finds it.
pipeline(h, input) == output_19(h, input)

\* How a call ends: Ok(()), one of the two RenderErrorReasons, or a panic
\* of a transformation; with what was run and written.
Outcome(res, fields, ran, out) == [result |-> res, detail |-> fields, applied |-> ran, written |-> out]

\* call with a missing argument taken as the empty string.
call_absent_as_empty(isStrict, p, h) ==
    IF p.kind # "absent" /\ p.kind # "string"
    THEN IF isStrict
         THEN Outcome("ParamTypeMismatchForName", <<"inflect", "0", "string">>, <<>>, <<>>)
         ELSE Outcome("Ok", <<>>, <<>>, <<>>)
    ELSE LET output == pipeline(h, render(p))
         IN IF output.panicked
            THEN Outcome("panic", <<>>, output.applied, <<>>)
            ELSE Outcome("Ok", <<>>, output.applied, <<output.s>>)

\* call without the is_string test: whatever the argument is, what it
\* renders to goes through the conditionals.
call_without_type_check(isStrict, p, h) ==
    IF p.kind = "absent"
    THEN IF isStrict
         THEN Outcome("ParamNotFoundForIndex", <<"inflect", "0">>, <<>>, <<>>)
         ELSE Outcome("Ok", <<>>, <<>>, <<>>)
    ELSE LET output == pipeline(h, render(p))
         IN IF output.panicked
            THEN Outcome("panic", <<>>, output.applied, <<>>)
            ELSE Outcome("Ok", <<>>, output.applied, <<output.s>>)

\* HelperDef::call, lines 106-218.
call(isStrict, p, h) ==
    IF p.kind = "absent"
    THEN IF isStrict
         THEN Outcome("ParamNotFoundForIndex", <<"inflect", "0">>, <<>>, <<>>)
         ELSE Outcome("Ok", <<>>, <<>>, <<>>)
    ELSE IF p.kind # "string"
    THEN IF isStrict
         THEN Outcome("ParamTypeMismatchForName", <<"inflect", "0", "string">>, <<>>, <<>>)
         ELSE Outcome("Ok", <<>>, <<>>, <<>>)
    ELSE LET output == pipeline(h, render(p))
         IN IF output.panicked
            THEN Outcome("panic", <<>>, output.applied, <<>>)
            ELSE Outcome("Ok", <<>>, output.applied, <<output.s>>)

\* ------------------------------------------------------- the inputs

\* List of possible operations in the order of execution (the doc comment
\* of HandlebarsInflector, lines 54-92).
Operations ==
    <<"to_camel_case", "to_pascal_case", "to_snake_case", "to_screaming_snake_case",
      "to_kebab_case", "to_train_case", "to_sentence_case", "to_title_case",
      "ordinalize", "deordinalize", "to_foreign_key", "demodulize", "deconstantize",
      "to_class_case", "to_table_case", "to_plural", "to_singular",
      "to_upper_case", "to_lower_case">>

Catalog == {Operations[i] : i \in 1..Len(Operations)}

\* Option names the helper never asks for: the catalog's names as a caller
\* may misspell them.
Unrecognized == <<"snake_case", "to_uppercase">>

OptionNames == Operations \o Unrecognized

\* The JSON values an option is given: true, false, null, a string, a
\* number.
Values == {"true", "false", "null", "string", "number"}

Option(name, value) == [name |-> name, value |-> value]

Str(s) == [kind |-> "string", str |-> s]

\* A JSON value that is no string, with what JsonRender makes of it.
NonString(kind, rendering) == [kind |-> kind, str |-> rendering]

\* h.param(0) is None.
Absent == NonString("absent", <<>>)

\* 42, true, null, [] and {}.
NonStrings ==
    {NonString("number", <<"4", "2">>),
     NonString("bool", <<"t", "r", "u", "e">>),
     NonString("null", <<>>),
     NonString("array", <<"[", "]">>),
     NonString("object", <<"[", "o", "b", "j", "e", "c", "t", "]">>)}

\* The strings of lib.rs's examples and tests.
ProductImagesSnake == <<"p", "r", "o", "d", "u", "c", "t", "_", "i", "m", "a", "g", "e", "s">>

ProductImages == <<"P", "r", "o", "d", "u", "c", "t", "I", "m", "a", "g", "e", "s">>

ProductImageWords == <<"p", "r", "o", "d", "u", "c", "t", " ", "i", "m", "a", "g", "e">>

FooBar == <<"F", "o", "o", ":", ":", "B", "a", "r">>

July1 == <<"J", "u", "l", "y", " ", "1">>

July == <<"J", "u", "l", "y", " ">>

Number == <<"n", "o", ".", " ">>

DocStrings == {ProductImages, ProductImageWords, FooBar, July1}

\* All strings over the characters of S of length at most n.
RECURSIVE StringsUpTo(_, _)
StringsUpTo(S, n) ==
    IF n = 0 THEN {<<>>}
    ELSE LET shorter == StringsUpTo(S, n - 1)
         IN shorter \cup {Append(s, c) : s \in shorter, c \in S}

\* The characters of the generated inputs: a lower-case and an upper-case
\* letter, the separators, a digit and the decimal point.
Sigma == {"a", "B", "_", " ", ":", "1", "."}

OptionNamesOf(h) == {h[i].name : i \in 1..Len(h)}

\* All lists of at most n options with different names out of `names`,
\* each with a value out of `values`, in every order.
RECURSIVE OptionLists(_, _, _)
OptionLists(names, values, n) ==
    IF n = 0 THEN {<<>>}
    ELSE LET shorter == OptionLists(names, values, n - 1)
             longest == {g \in shorter : Len(g) = n - 1}
         IN shorter \cup
            UNION {{Append(g, Option(nm, v)) : nm \in names \ OptionNamesOf(g), v \in values} : g \in longest}

\* All strictly decreasing lists of at most n indices out of 1..m.
RECURSIVE Descending(_, _)
Descending(m, n) ==
    IF n = 0 THEN {<<>>}
    ELSE LET shorter == Descending(m, n - 1)
             longest == {g \in shorter : Len(g) = n - 1}
         IN shorter \cup
            UNION {{Append(g, i) : i \in {j \in 1..m : Len(g) = 0 \/ j < g[Len(g)]}} : g \in longest}

\* Every set of at most n option names, each set listed once, against the
\* order of execution, every option given as name=true.
FlagLists(n) ==
    {[i \in 1..Len(g) |-> Option(OptionNames[g[i]], "true")] : g \in Descending(Len(OptionNames), n)}

\* All 19 flags on one call, listed against the order of execution.
AllFlags == [i \in 1..Len(Operations) |-> Option(Operations[Len(Operations) + 1 - i], "true")]

\* The names of the calls whose options come in every order and with
\* every value.
OrderNames == {"to_snake_case", "to_upper_case", "to_lower_case", "snake_case"}

\* Calls with every set of at most MaxOptions options, and with all 19
\* flags, on the documented strings, the empty string, the values that are
\* no string, and no argument.
InitFlagSets ==
    /\ strict \in BOOLEAN
    /\ param \in {Absent} \cup NonStrings \cup {Str(s) : s \in DocStrings \cup {<<>>}}
    /\ options \in FlagLists(MaxOptions) \cup {AllFlags}

\* Calls whose options come in every order and with every value.
InitOrders ==
    /\ strict \in BOOLEAN
    /\ param \in {Absent, Str(ProductImages)}
    /\ options \in OptionLists(OrderNames, Values, MaxOptions)

\* Calls with at most one option on every string of at most MaxLen
\* characters of Sigma.
InitStrings ==
    /\ strict = FALSE
    /\ param \in {Str(s) : s \in StringsUpTo(Sigma, MaxLen)}
    /\ options \in FlagLists(1)

\* The digits of the generated numbers: 0 and 4 stand for the digits that
\* take th.
OrdinalDigits == {"0", "1", "2", "3", "4"}

\* Calls with ordinalize, deordinalize or both on the strings that end in
\* a number of at most MaxLen digits.
InitOrdinals ==
    /\ strict = FALSE
    /\ param \in {Str(pre \o d) : pre \in {<<>>, July, Number}, d \in StringsUpTo(OrdinalDigits, MaxLen) \ {<<>>}}
    /\ options \in OptionLists({"ordinalize", "deordinalize"}, {"true"}, 2)

Init ==
    /\ InitFlagSets \/ InitOrders \/ InitStrings \/ InitOrdinals
    /\ pc = "ready"
    /\ result = "none"
    /\ detail = <<>>
    /\ applied = <<>>
    /\ written = <<>>

\* The renderer runs the helper: HelperDef::call, start to return.
Call ==
    /\ pc = "ready"
    /\ LET o == call(strict, param, options)
       IN /\ result' = o.result
          /\ detail' = o.detail
          /\ applied' = o.applied
          /\ written' = o.written
    /\ pc' = "done"
    /\ UNCHANGED <<strict, param, options>>

Next == Call

Spec == Init /\ [][Next]_vars

\* ---------------------------------------------------------- the claims

Done == pc = "done"

IsString == param.kind = "string"

\* How the call of this state ended.
Ended == Outcome(result, detail, applied, written)

\* The flags of the call: the catalog names among its options.
Active(h) == OptionNamesOf(h) \cap Catalog

\* The transformation the documentation gives each operation (lines 56-92).
Transform(name, s) ==
    CASE name = "to_camel_case" -> to_camel_case(s)
      [] name = "to_pascal_case" -> to_pascal_case(s)
      [] name = "to_snake_case" -> to_snake_case(s)
      [] name = "to_screaming_snake_case" -> to_screaming_snake_case(s)
      [] name = "to_kebab_case" -> to_kebab_case(s)
      [] name = "to_train_case" -> to_train_case(s)
      [] name = "to_sentence_case" -> to_sentence_case(s)
      [] name = "to_title_case" -> to_title_case(s)
      [] name = "ordinalize" -> ordinalize(s)
      [] name = "deordinalize" -> deordinalize(s)
      [] name = "to_foreign_key" -> to_foreign_key(s)
      [] name = "demodulize" -> demodulize(s)
      [] name = "deconstantize" -> deconstantize(s)
      [] name = "to_class_case" -> to_class_case(s)
      [] name = "to_table_case" -> to_table_case(s)
      [] name = "to_plural" -> to_plural(s)
      [] name = "to_singular" -> to_singular(s)
      [] name = "to_upper_case" -> to_uppercase(s)
      [] name = "to_lower_case" -> to_lowercase(s)

\* One step of the fold: the operation run on the string so far (a panic
\* of the operation ends the fold).
FoldStep(name, out) ==
    IF out.panicked THEN out
    ELSE IF name = "ordinalize" /\ ordinalize_panics(out.s) THEN [out EXCEPT !.panicked = TRUE]
    ELSE [s |-> Transform(name, out.s), applied |-> Append(out.applied, name), panicked |-> FALSE]

\* The fold of the active operations over the string, in the order of
\* Operations, from the i-th on.
RECURSIVE FoldOperations(_, _, _)
FoldOperations(active, i, out) ==
    IF i > Len(Operations) THEN out
    ELSE FoldOperations(active, i + 1,
             IF Operations[i] \in active THEN FoldStep(Operations[i], out) ELSE out)

\* C1: for a string argument, what the helper writes is the fold of the
\* active transformations over the input in the documented order of
\* execution, each step on the previous step's output and inactive steps
\* skipped (a step that panics ends the call as it ends the fold); with
\* exactly one flag it is that one transformation of the input.
C1_FoldInCanonicalOrder ==
    (Done /\ IsString) =>
        LET ref == FoldOperations(Active(options), 1, Running(param.str))
        IN /\ applied = ref.applied
           /\ IF ref.panicked
              THEN result = "panic" /\ written = <<>>
              ELSE result = "Ok" /\ written = <<ref.s>>
           /\ \A f \in Catalog :
                (Active(options) = {f} /\ ~ref.panicked) => written = <<Transform(f, param.str)>>

C1_Witness ==
    /\ Done
    /\ param = Str(ProductImages)
    /\ Len(options) = 2
    /\ options[1].name = "to_upper_case"
    /\ options[2].name = "to_snake_case"
    /\ applied = <<"to_snake_case", "to_upper_case">>
    /\ written = <<to_uppercase(ProductImagesSnake)>>

\* The option list h in the order p, a permutation of its positions.
Reordered(h, p) == [i \in 1..Len(h) |-> h[p[i]]]

\* The orders a call's options are compared in: every order of a short
\* list; of a long one, the reverse order and the one that starts with its
\* last option.
Reorderings(h) ==
    IF Len(h) <= MaxOptions + 1
    THEN {Reordered(h, p) : p \in Permutations(1..Len(h))}
    ELSE {[i \in 1..Len(h) |-> h[Len(h) + 1 - i]],
          [i \in 1..Len(h) |-> h[IF i = 1 THEN Len(h) ELSE i - 1]]}

\* C2: the call ends the same way (result, transformations run, string
\* written) in whatever order the caller lists its options.
C2_RequestOrderIrrelevant ==
    Done => \A h \in Reorderings(options) : call(strict, param, h) = Ended

C2_Witness ==
    /\ Done
    /\ param = Str(ProductImages)
    /\ Len(options) = 2
    /\ options[1].name = "to_snake_case"
    /\ options[2].name = "to_upper_case"
    /\ written = <<to_uppercase(ProductImagesSnake)>>
    /\ call(strict, param, <<options[2], options[1]>>).written = written

\* The option list h with every option given the value v.
WithValue(h, v) == [i \in 1..Len(h) |-> Option(h[i].name, v)]

\* C3: a flag is active by presence, never by value: giving the call's
\* options any other value (true, false, null, a string, a number) changes
\* nothing, and a call that ends Ok has run exactly the transformations
\* whose options it names, the named ones whatever their values.
C3_PresenceNotValue ==
    Done =>
        /\ \A v \in Values : call(strict, param, WithValue(options, v)) = Ended
        /\ (IsString /\ result = "Ok") =>
              {applied[i] : i \in 1..Len(applied)} = Active(options)

C3_Witness ==
    /\ Done
    /\ param = Str(ProductImages)
    /\ options = <<Option("to_upper_case", "false")>>
    /\ applied = <<"to_upper_case">>
    /\ written = <<to_uppercase(ProductImages)>>

\* C4: without a first argument the helper runs no transformation and
\* writes nothing, whatever the flags; it returns Ok in non-strict mode and
\* ParamNotFoundForIndex("inflect", 0) in strict mode.
C4_MissingArgument ==
    (Done /\ param.kind = "absent") =>
        /\ applied = <<>>
        /\ written = <<>>
        /\ IF strict
           THEN result = "ParamNotFoundForIndex" /\ detail = <<"inflect", "0">>
           ELSE result = "Ok"

C4_Witness ==
    /\ Done
    /\ param.kind = "absent"
    /\ strict
    /\ Active(options) # {}
    /\ result = "ParamNotFoundForIndex"
    /\ written = <<>>

\* C5: with a first argument that is no string (a number, a boolean, null,
\* an array, an object) the helper runs no transformation and writes
\* nothing, whatever the flags; it returns Ok in non-strict mode and
\* ParamTypeMismatchForName("inflect", "0", "string") in strict mode.
C5_NonStringArgument ==
    (Done /\ param \in NonStrings) =>
        /\ applied = <<>>
        /\ written = <<>>
        /\ IF strict
           THEN result = "ParamTypeMismatchForName" /\ detail = <<"inflect", "0", "string">>
           ELSE result = "Ok"

C5_Witness ==
    /\ Done
    /\ param = NonString("number", <<"4", "2">>)
    /\ ~strict
    /\ Active(options) # {}
    /\ result = "Ok"
    /\ written = <<>>

IsRecognized(o) == o.name \in Catalog

\* C6: options whose names are not in the catalog are ignored: the call
\* ends as the call without them does, in strict and in non-strict mode.
C6_UnrecognizedIgnored ==
    Done => call(strict, param, SelectSeq(options, IsRecognized)) = Ended

C6_Witness ==
    /\ Done
    /\ strict
    /\ param = Str(ProductImages)
    /\ Len(options) = 2
    /\ options[1].name = "snake_case"
    /\ options[2].name = "to_upper_case"
    /\ written = <<to_uppercase(ProductImages)>>

\* C7: the pipeline is total: a call with a string argument, the empty
\* string included, ends Ok with one string written, whatever the flags;
\* the only errors are the two of strict mode, for a missing argument and
\* for one that is no string.
C7_Total ==
    Done =>
        /\ result \in {"Ok", "ParamNotFoundForIndex", "ParamTypeMismatchForName"}
        /\ IsString => (result = "Ok" /\ Len(written) = 1)
        /\ result # "Ok" => (strict /\ ~IsString)

\* The trailing token of s: what follows its last space.
TrailingToken(s) ==
    LET spaces == {i \in 1..Len(s) : s[i] = " "}
    IN IF spaces = {} THEN s ELSE SubSeq(s, SetMax(spaces) + 1, Len(s))

\* The trailing token of s is a bare integer.
BareIntegerTail(s) ==
    /\ TrailingToken(s) # <<>>
    /\ \A i \in 1..Len(TrailingToken(s)) : is_numeric(TrailingToken(s)[i])

Digits == <<"0", "1", "2", "3", "4", "5", "6", "7", "8", "9">>

DigitValue(c) == (CHOOSE i \in 1..10 : Digits[i] = c) - 1

\* The number a digit string denotes, modulo 100.
LastTwoDigits(d) ==
    IF Len(d) = 1 THEN DigitValue(d[1])
    ELSE 10 * DigitValue(d[Len(d) - 1]) + DigitValue(d[Len(d)])

\* The English ordinal suffix of the number a digit string denotes: th
\* for 11 to 13 (modulo 100), else st, nd, rd for a last digit of 1, 2, 3,
\* else th.
EnglishSuffix(d) ==
    LET n == LastTwoDigits(d)
    IN IF n \in 11..13 THEN <<"t", "h">>
       ELSE IF n % 10 = 1 THEN <<"s", "t">>
       ELSE IF n % 10 = 2 THEN <<"n", "d">>
       ELSE IF n % 10 = 3 THEN <<"r", "d">>
       ELSE <<"t", "h">>

EmptyInputOneFlag ==
    /\ Done
    /\ param = Str(<<>>)
    /\ Len(options) = 1
    /\ options[1].name \in Catalog

NotUpperCaseFlag(o) == o.name # "to_upper_case"

====
